---- MODULE Spec2Model ----
(***************************************************************************)
(* Dashboard aggregation of the picks marketplace backend                  *)
(* (backend/app/services/dashboard_service.py): the record store the       *)
(* service reads (users, bets, subscriptions), the clock it samples with   *)
(* datetime.now(), and its operations get_user_metrics,                    *)
(* get_performance_history and get_recent_activity with their helpers;     *)
(* and the purchase of a pick (backend/app/services/                       *)
(* marketplace_service.py, purchase_pick).                                 *)
(*                                                                         *)
(* Times are whole seconds.  Profits are whole amounts, so round(x, 2) of  *)
(* a sum of profits is the sum itself.  The numbers Python computes in     *)
(* floating point are exact rationals <<num, den>> here, den > 0, in       *)
(* lowest terms.                                                           *)
(***************************************************************************)
EXTENDS Integers, Sequences, FiniteSets, Bags, TLC

VARIABLES now, users, bets, subs, ret, pc, loc,
          picks, purchased_picks, sessions, results

\* The state of the dashboard service and its store; the committed rows of
\* the marketplace, the database sessions of the calls of purchase_pick in
\* progress and what the calls have results.
dashboard == <<now, users, bets, subs, ret, pc, loc>>
market == <<picks, purchased_picks, sessions, results>>

vars == <<dashboard, market>>

(***************************************************************************)
(* Numbers                                                                 *)
(***************************************************************************)
Abs(i) == IF i < 0 THEN -i ELSE i

RECURSIVE GCD(_, _)
GCD(a, b) == IF b = 0 THEN a ELSE GCD(b, a % b)

\* The outcome of a float division by zero: Python raises ZeroDivisionError.
ZeroDivisionError == <<"ZeroDivisionError">>

\* An exception raised instead of a value results.
IsFault(x) == Len(x) = 1

\* n/d in lowest terms with a positive denominator.
Rat(n, d) ==
    LET g == GCD(Abs(n), Abs(d))
        s == IF d < 0 THEN -1 ELSE 1
    IN  <<(s * n) \div g, (s * d) \div g>>

Zero == <<0, 1>>
RatInt(i) == <<i, 1>>
RatSub(a, b) == Rat(a[1] * b[2] - b[1] * a[2], a[2] * b[2])
RatAdd(a, b) == Rat(a[1] * b[2] + b[1] * a[2], a[2] * b[2])
RatMul(a, b) == Rat(a[1] * b[1], a[2] * b[2])
RatAbs(a) == <<Abs(a[1]), a[2]>>
RatDiv(a, b) == IF b[1] = 0 THEN ZeroDivisionError ELSE Rat(a[1] * b[2], a[2] * b[1])
RatLeq(a, b) == a[1] * b[2] <= b[1] * a[2]

\* round(x, digits) with scale = 10^digits: the nearest multiple of 1/scale,
\* a tie going to the even multiple.
Round(x, scale) ==
    LET m == x[1] * scale
        q == m \div x[2]
        r == m % x[2]
        up == \/ 2 * r > x[2]
              \/ 2 * r = x[2] /\ q % 2 = 1
    IN  Rat(IF up THEN q + 1 ELSE q, scale)

\* round(x, 1)
Round1(x) == Round(x, 10)

(***************************************************************************)
(* Time                                                                    *)
(***************************************************************************)
SecondsPerMinute == 60
SecondsPerHour == 3600
Day == 24 * SecondsPerHour

\* timedelta(days=n)
Days(n) == n * Day

\* The clock reading of the first state; 12:00:00 on day 1000.
Now0 == Days(1000) + 12 * SecondsPerHour

\* How many times the clock advances in a behaviour.
MaxTicks == 1

Ticks == (now - Now0)

(***************************************************************************)
(* _calculate_percentage_change                                            *)
(***************************************************************************)
\* The same without the guard on a zero previous value.
calculate_percentage_change_unguarded(current_value, previous_value) ==
    LET q == RatDiv(RatSub(current_value, previous_value), RatAbs(previous_value))
    IN  IF q = ZeroDivisionError THEN q ELSE RatMul(q, RatInt(100))

calculate_percentage_change(current_value, previous_value) ==
    IF previous_value[1] = 0
    THEN Zero
    ELSE LET q == RatDiv(RatSub(current_value, previous_value), RatAbs(previous_value))
         IN  IF q = ZeroDivisionError THEN q ELSE RatMul(q, RatInt(100))

(***************************************************************************)
(* _format_relative_time                                                   *)
(***************************************************************************)
\* datetime.now() - timestamp as a normalised timedelta: days may be
\* negative, seconds is always in 0 .. 86399.
TimeDelta(a, b) == [days |-> (a - b) \div Day, seconds |-> (a - b) % Day]

format_relative_time(clock, timestamp) ==
    LET time_diff == TimeDelta(clock, timestamp)
    IN  IF time_diff.days > 0 THEN <<time_diff.days, "d ago">>
        ELSE IF time_diff.seconds >= SecondsPerHour
             THEN <<time_diff.seconds \div SecondsPerHour, "h ago">>
        ELSE IF time_diff.seconds >= SecondsPerMinute
             THEN <<time_diff.seconds \div SecondsPerMinute, "m ago">>
        ELSE <<"just now">>

(***************************************************************************)
(* The record store                                                        *)
(***************************************************************************)
\* Python's None.
None == [type |-> "NoneType"]

\* The ids of the User rows; UnknownUser is an id with no row.
UserIds == {1, 2}
UnknownUser == 3

\* A Bet row as the placement flow writes it: pending, with no profit value.
Bet(user_id, created_at, amount, event_name) ==
    [user_id |-> user_id, created_at |-> created_at, status |-> "pending",
     amount |-> amount, event_name |-> event_name]

\* The row after settlement; a settlement may leave the profit value out.
Settled(bet, status, profit) ==
    IF profit = <<>>
    THEN [bet EXCEPT !.status = status]
    ELSE [bet EXCEPT !.status = status] @@ ("profit" :> profit[1])

\* A Subscription row.
Subscription(user_id, created_at, plan_name) ==
    [user_id |-> user_id, created_at |-> created_at, plan_name |-> plan_name]

\* hasattr(row, name)
hasattr(row, name) == name \in DOMAIN row

\* The rows of bag B that are in the set S, each as often as B holds it.
Keep(B, S) == [r \in DOMAIN B \cap S |-> B[r]]

\* len(rows)
Len_(B) == BagCardinality(B)

\* sum(bet.profit for bet in rows), every row holding a profit value.
RECURSIVE SumProfit(_)
SumProfit(B) ==
    IF DOMAIN B = {} THEN 0
    ELSE LET r == CHOOSE x \in DOMAIN B : TRUE
         IN  B[r] * r.profit + SumProfit([x \in DOMAIN B \ {r} |-> B[x]])

\* Bag B without one copy of row r.
Without(B, r) == B (-) SetToBag({r})

(***************************************************************************)
(* Metric primitives                                                       *)
(***************************************************************************)
calculate_win_rate(rows) ==
    IF Len_(rows) = 0 THEN Zero
    ELSE LET winning_bets == Keep(rows, {bet \in DOMAIN rows : bet.status = "win"})
         IN  RatMul(Rat(Len_(winning_bets), Len_(rows)), RatInt(100))

\* Bet.query.filter(user_id ==, created_at >= start_date, status != 'pending')
\* and, when end_date is given, created_at < end_date.  end_date is <<>> for
\* the default None and <<t>> otherwise.
PeriodQuery(B, user_id, start_date, end_date) ==
    Keep(B, {bet \in DOMAIN B : /\ bet.user_id = user_id
                                 /\ bet.created_at >= start_date
                                 /\ bet.status # "pending"
                                 /\ (end_date # <<>> => bet.created_at < end_date[1])})

calculate_period_win_rate(B, user_id, start_date, end_date) ==
    calculate_win_rate(PeriodQuery(B, user_id, start_date, end_date))

\* Reading bet.profit of a row that has no such attribute.
AttributeError == <<"AttributeError">>

\* sum(bet.profit for bet in bets), without the hasattr test.
calculate_period_profit_unchecked(B, user_id, start_date, end_date) ==
    LET rows == PeriodQuery(B, user_id, start_date, end_date)
    IN  IF \E bet \in DOMAIN rows : ~hasattr(bet, "profit")
        THEN AttributeError
        ELSE RatInt(SumProfit(rows))

calculate_period_profit(B, user_id, start_date, end_date) ==
    LET rows == PeriodQuery(B, user_id, start_date, end_date)
    IN  RatInt(SumProfit(Keep(rows, {bet \in DOMAIN rows : hasattr(bet, "profit")})))

(***************************************************************************)
(* Trend engine                                                            *)
(***************************************************************************)
\* metric_func(user_id, start_date, end_date), metric_func given by name.
MetricFuncs == {"calculate_period_profit", "calculate_period_win_rate"}

metric_func(name, B, user_id, start_date, end_date) ==
    IF name = "calculate_period_profit"
    THEN calculate_period_profit(B, user_id, start_date, end_date)
    ELSE calculate_period_win_rate(B, user_id, start_date, end_date)

\* The previous window read from its start with no end, so that it overlaps
\* the current one.
calculate_trend_metric_overlapping(B, clock, user_id, metric, current_period_days, previous_period_days) ==
    LET current_period_start == clock - Days(current_period_days)
        previous_period_start == clock - Days(previous_period_days)
        current_metric == metric_func(metric, B, user_id, current_period_start, <<>>)
        previous_metric == metric_func(metric, B, user_id, previous_period_start, <<>>)
    IN  IF IsFault(current_metric) THEN current_metric
        ELSE IF IsFault(previous_metric) THEN previous_metric
        ELSE calculate_percentage_change(current_metric, previous_metric)

calculate_trend_metric(B, clock, user_id, metric, current_period_days, previous_period_days) ==
    LET current_period_start == clock - Days(current_period_days)
        previous_period_start == clock - Days(previous_period_days)
        current_metric == metric_func(metric, B, user_id, current_period_start, <<>>)
        previous_metric == metric_func(metric, B, user_id, previous_period_start,
                                       <<current_period_start>>)
    IN  IF IsFault(current_metric) THEN current_metric
        ELSE IF IsFault(previous_metric) THEN previous_metric
        ELSE calculate_percentage_change(current_metric, previous_metric)

(***************************************************************************)
(* get_user_metrics                                                        *)
(***************************************************************************)
CurrentPeriodDays == 30
PreviousPeriodDays == 60

\* What the collaborators outside this service answer during one call:
\* BetService.get_clutch_picks_count (overall, last 30 days, the 30 days
\* before) and the followers count of the user row.
ExtAnswers ==
    {[clutch |-> 0, current |-> 0, previous |-> 0, followers |-> 0],
     [clutch |-> 3, current |-> 2, previous |-> 1, followers |-> 7]}

\* _calculate_followers_trend
calculate_followers_trend(user_id) == Zero

\* The snapshot compiled from the values computed; an exception raised
\* while one of them was computed ends the call.
Metrics(win_rate, win_rate_trend, total_profit, profit_trend, ext, user_id) ==
    IF IsFault(win_rate_trend) THEN win_rate_trend
    ELSE IF IsFault(profit_trend) THEN profit_trend
    ELSE
    [winRate |-> Round1(win_rate),
     winRateTrend |-> Round1(win_rate_trend),
     totalProfit |-> Round(RatInt(total_profit), 100),
     profitTrend |-> Round1(profit_trend),
     clutchPicks |-> ext.clutch,
     clutchPicksTrend |->
         Round1(calculate_percentage_change(RatInt(ext.current), RatInt(ext.previous))),
     followers |-> ext.followers,
     followersTrend |-> Round1(calculate_followers_trend(user_id))]

\* The same with every bet of the user taken as settled.
get_user_metrics_all_bets(U, B, clock, ext, user_id) ==
    IF user_id \notin U THEN None
    ELSE LET all_bets == Keep(B, {bet \in DOMAIN B : bet.user_id = user_id})
             settled_bets == all_bets
         IN  Metrics(calculate_win_rate(settled_bets),
                     calculate_trend_metric(B, clock, user_id, "calculate_period_win_rate",
                                            CurrentPeriodDays, PreviousPeriodDays),
                     SumProfit(Keep(settled_bets, {bet \in DOMAIN settled_bets : hasattr(bet, "profit")})),
                     calculate_trend_metric(B, clock, user_id, "calculate_period_profit",
                                            CurrentPeriodDays, PreviousPeriodDays),
                     ext, user_id)

\* The same without the test for a missing user row.
get_user_metrics_no_user_test(U, B, clock, ext, user_id) ==
    LET all_bets == Keep(B, {bet \in DOMAIN B : bet.user_id = user_id})
        settled_bets == Keep(all_bets, {bet \in DOMAIN all_bets : bet.status # "pending"})
    IN  Metrics(calculate_win_rate(settled_bets),
                calculate_trend_metric(B, clock, user_id, "calculate_period_win_rate",
                                       CurrentPeriodDays, PreviousPeriodDays),
                SumProfit(Keep(settled_bets, {bet \in DOMAIN settled_bets : hasattr(bet, "profit")})),
                calculate_trend_metric(B, clock, user_id, "calculate_period_profit",
                                       CurrentPeriodDays, PreviousPeriodDays),
                ext, user_id)

\* U: the User rows, B: the Bet rows, clock: datetime.now().
get_user_metrics(U, B, clock, ext, user_id) ==
    IF user_id \notin U THEN None
    ELSE LET all_bets == Keep(B, {bet \in DOMAIN B : bet.user_id = user_id})
             settled_bets == Keep(all_bets, {bet \in DOMAIN all_bets : bet.status # "pending"})
         IN  Metrics(calculate_win_rate(settled_bets),
                     calculate_trend_metric(B, clock, user_id, "calculate_period_win_rate",
                                            CurrentPeriodDays, PreviousPeriodDays),
                     SumProfit(Keep(settled_bets, {bet \in DOMAIN settled_bets : hasattr(bet, "profit")})),
                     calculate_trend_metric(B, clock, user_id, "calculate_period_profit",
                                            CurrentPeriodDays, PreviousPeriodDays),
                     ext, user_id)

(***************************************************************************)
(* get_performance_history                                                 *)
(***************************************************************************)
DailyUpToDays == 30
WeeklyUpToDays == 90
DailyFreq == 1
WeeklyFreq == 7
BiweeklyFreq == 15

\* The bag of the rows of a list.
RECURSIVE BagOf(_)
BagOf(list) ==
    IF list = <<>> THEN EmptyBag ELSE SetToBag({Head(list)}) (+) BagOf(Tail(list))

\* The lists a query with order_by(created_at) may return for the rows of
\* bag B: every arrangement of them with created_at ascending, rows of one
\* stamp in any order.
RECURSIVE OrderedByCreatedAt(_)
OrderedByCreatedAt(B) ==
    IF B = EmptyBag THEN {<<>>}
    ELSE LET firsts == {r \in DOMAIN B : \A x \in DOMAIN B : r.created_at <= x.created_at}
         IN  UNION {{<<r>> \o rest : rest \in OrderedByCreatedAt(Without(B, r))} : r \in firsts}

\* Bet.query.filter(user_id ==, created_at >= start_date, status != 'pending')
HistoryQuery(B, user_id, start_date) ==
    Keep(B, {bet \in DOMAIN B : /\ bet.user_id = user_id
                                 /\ bet.created_at >= start_date
                                 /\ bet.status # "pending"})

\* strftime('%b %d'): month and day of the month, the year left out; the
\* calendar here has years of 365 days.
MonthLengths == <<31, 28, 31, 30, 31, 30, 31, 31, 30, 31, 30, 31>>
MonthNames ==
    <<"Jan", "Feb", "Mar", "Apr", "May", "Jun", "Jul", "Aug", "Sep", "Oct", "Nov", "Dec">>

RECURSIVE MonthAndDay(_, _)
MonthAndDay(month, day_of_year) ==
    IF day_of_year < MonthLengths[month]
    THEN <<MonthNames[month], day_of_year + 1>>
    ELSE MonthAndDay(month + 1, day_of_year - MonthLengths[month])

strftime_b_d(timestamp) == MonthAndDay(1, (timestamp \div Day) % 365)

\* sum of profit over the rows of the list dated in [lo, hi)
RECURSIVE SumBetween(_, _, _)
SumBetween(data, lo, hi) ==
    IF data = <<>> THEN 0
    ELSE (IF lo <= Head(data).date /\ Head(data).date < hi THEN Head(data).profit ELSE 0)
             + SumBetween(Tail(data), lo, hi)

RECURSIVE MinDate(_)
MinDate(data) ==
    IF Len(data) = 1 THEN data[1].date
    ELSE LET m == MinDate(Tail(data)) IN IF data[1].date < m THEN data[1].date ELSE m

RECURSIVE MaxDate(_)
MaxDate(data) ==
    IF Len(data) = 1 THEN data[1].date
    ELSE LET m == MaxDate(Tail(data)) IN IF data[1].date > m THEN data[1].date ELSE m

\* Only the bins that hold a row.
resample_sum_no_gaps(data, freq) ==
    LET origin == (MinDate(data) \div Day) * Day
        width == Days(freq)
        bins == ((MaxDate(data) - origin) \div width) + 1
        all == [i \in 1 .. bins |->
                   [date |-> origin + (i - 1) * width,
                    profit |-> SumBetween(data, origin + (i - 1) * width, origin + i * width)]]
    IN  SelectSeq(all, LAMBDA bin : \E k \in 1 .. Len(data) :
                                        bin.date <= data[k].date /\ data[k].date < bin.date + width)

\* df.resample(freq).sum() for a frequency of freq days: bins of that width,
\* closed on the left and labelled by their left edge, the first starting
\* at midnight of the day of the earliest row and the last holding the
\* latest row; a bin without rows sums to 0.
resample_sum(data, freq) ==
    LET origin == (MinDate(data) \div Day) * Day
        width == Days(freq)
        bins == ((MaxDate(data) - origin) \div width) + 1
    IN  [i \in 1 .. bins |->
            [date |-> origin + (i - 1) * width,
             profit |-> SumBetween(data, origin + (i - 1) * width, origin + i * width)]]

\* The series left as the sums of the bins.
cumsum_left_out(resampled) == resampled

\* resampled['profit'].cumsum()
RECURSIVE cumsum(_)
cumsum(resampled) ==
    IF Len(resampled) <= 1 THEN resampled
    ELSE LET front == cumsum(SubSeq(resampled, 1, Len(resampled) - 1))
             last == resampled[Len(resampled)]
         IN  Append(front, [last EXCEPT !.profit = @ + front[Len(front)].profit])

\* The body of get_performance_history after the query: rows is the list the
\* query results.
performance_history(rows, days) ==
    LET with_profit == SelectSeq(rows, LAMBDA bet : hasattr(bet, "profit"))
        bet_data == [k \in 1 .. Len(with_profit) |->
                        [date |-> with_profit[k].created_at, profit |-> with_profit[k].profit]]
        freq == IF days <= DailyUpToDays THEN DailyFreq
                ELSE IF days <= WeeklyUpToDays THEN WeeklyFreq
                ELSE BiweeklyFreq
    IN  IF bet_data = <<>> THEN <<>>
        ELSE LET resampled == cumsum(resample_sum(bet_data, freq))
             IN  [i \in 1 .. Len(resampled) |->
                     [date |-> strftime_b_d(resampled[i].date),
                      profit |-> Round(RatInt(resampled[i].profit), 100)]]

(***************************************************************************)
(* get_recent_activity                                                     *)
(***************************************************************************)
SubscriptionsLimit == 3

Min(a, b) == IF a < b THEN a ELSE b

\* The lists a query with order_by(created_at.desc()) may return for the
\* rows of bag B: created_at descending, rows of one stamp in any order.
RECURSIVE OrderedByCreatedAtDesc(_)
OrderedByCreatedAtDesc(B) ==
    IF B = EmptyBag THEN {<<>>}
    ELSE LET firsts == {r \in DOMAIN B : \A x \in DOMAIN B : r.created_at >= x.created_at}
         IN  UNION {{<<r>> \o rest : rest \in OrderedByCreatedAtDesc(Without(B, r))} :
                        r \in firsts}

\* query.filter_by(user_id=user_id).order_by(created_at.desc()).limit(n).all()
RecentRows(B, user_id, n) ==
    {SubSeq(list, 1, Min(n, Len(list))) :
        list \in OrderedByCreatedAtDesc(Keep(B, {r \in DOMAIN B : r.user_id = user_id}))}

\* The activity item of a bet, the date still in it.
bet_activity(clock, bet) ==
    LET verb == IF bet.status = "win" THEN "Won"
                ELSE IF bet.status = "loss" THEN "Lost" ELSE "Placed"
        head == IF hasattr(bet, "event_name") /\ bet.event_name # ""
                THEN <<verb, Abs(bet.amount), "on", bet.event_name>>
                ELSE <<verb, Abs(bet.amount), "bet">>
        description == IF bet.status \in {"win", "loss"} /\ hasattr(bet, "profit")
                       THEN Append(head, Abs(bet.profit))
                       ELSE head
    IN  [type |-> IF bet.status \in {"win", "loss"} THEN bet.status ELSE "bet",
         description |-> description,
         time |-> format_relative_time(clock, bet.created_at),
         date |-> bet.created_at]

\* The activity item of a subscription.
subscription_activity(clock, sub) ==
    [type |-> "purchase",
     description |-> <<"Purchased", sub.plan_name, "Plan">>,
     time |-> format_relative_time(clock, sub.created_at),
     date |-> sub.created_at]

\* The list in its order, not sorted.
sort_by_date_left_out(activities) == activities

\* activities.sort(key=lambda x: x["date"], reverse=True): by date
\* descending, items of one date in the order they had.
RECURSIVE sort_by_date_reverse(_)
sort_by_date_reverse(activities) ==
    IF Len(activities) <= 1 THEN activities
    ELSE LET front == sort_by_date_reverse(SubSeq(activities, 1, Len(activities) - 1))
             item == activities[Len(activities)]
             k == Cardinality({i \in 1 .. Len(front) : front[i].date >= item.date})
         IN  SubSeq(front, 1, k) \o <<item>> \o SubSeq(front, k + 1, Len(front))

\* del activity["date"]
del_date(activity) == [f \in DOMAIN activity \ {"date"} |-> activity[f]]

\* The activities combined and sorted, as they are before the date is
\* removed from them.
sorted_activities(clock, recent_bets, recent_subscriptions) ==
    sort_by_date_reverse(
        [i \in 1 .. Len(recent_bets) |-> bet_activity(clock, recent_bets[i])]
            \o [i \in 1 .. Len(recent_subscriptions) |->
                   subscription_activity(clock, recent_subscriptions[i])])

\* The body of get_recent_activity after its two queries.
recent_activity(clock, recent_bets, recent_subscriptions, limit) ==
    LET activities == sorted_activities(clock, recent_bets, recent_subscriptions)
        undated == [i \in 1 .. Len(activities) |-> del_date(activities[i])]
    IN  SubSeq(undated, 1, Min(limit, Len(undated)))

(***************************************************************************)
(* State and the writes of the flows outside the service                   *)
(***************************************************************************)
\* The Pick rows: one pick, and an id without a row.  A Pick row holds its
\* sales counter.
PickIds == {1}
UnknownPick == 2
InitialSales == 0
Pick(sales) == [sales |-> sales]

\* The database sessions, one for each thread that serves requests; a
\* session with no call of purchase_pick in it.
SessionIds == {1, 2}
NoSession == [pc |-> "idle"]

\* What the calls of purchase_pick have results so far: the calls begun,
\* for each pick the calls that results success True, and whether a call
\* that results success False had written to the committed rows.
NothingReturned == [calls |-> 0, successes |-> [pick_id \in PickIds |-> 0], failed_wrote |-> FALSE]

\* No result is waiting for the caller.
NoCall == [op |-> "none"]
NoLocals == [step |-> "none"]

\* The most Bet rows a behaviour writes.
MaxBets == 3

\* The outcomes a settlement writes: a status and a profit value, or none.
Outcomes == {<<"win", <<20>>>>, <<"loss", <<-10>>>>, <<"loss", <<>>>>}

\* Created-at stamps of the rows.  The models stamp rows with
\* datetime.utcnow (models/user.py) while the service reads datetime.now(),
\* so a stamp can lie ahead of the service's clock.
MetricTimes == {Now0 - Days(PreviousPeriodDays), Now0 - Days(CurrentPeriodDays),
                Now0 + SecondsPerHour}

Init ==
    /\ now = Now0
    /\ users = UserIds
    /\ bets = EmptyBag
    /\ subs = EmptyBag
    /\ ret = NoCall
    /\ pc = "idle"
    /\ loc = NoLocals
    /\ picks = [pick_id \in PickIds |-> Pick(InitialSales)]
    /\ purchased_picks = [user_id \in UserIds |-> <<>>]
    /\ sessions = [s \in SessionIds |-> NoSession]
    /\ results = NothingReturned

\* Nothing of the service is running and no result waits for its caller.
Idle == ret = NoCall /\ pc = "idle"

\* The locals of the call in progress, if there is one, with the store
\* state B at clock reading clock added to the store states the call has
\* lived through.
Seen(B, clock) ==
    IF pc = "idle" THEN loc ELSE [loc EXCEPT !.seen = @ \cup {<<B, clock>>}]

\* The clock advances by a second.  The clock and the flows that write run
\* on their own, whether a call of the service is in progress or not.
Tick ==
    /\ ret = NoCall
    /\ Ticks < MaxTicks
    /\ now' = now + 1
    /\ loc' = Seen(bets, now')
    /\ UNCHANGED <<users, bets, subs, ret, pc, market>>

\* The placement flow writes a pending bet.
PlaceBet(cap, user_id, created_at, amount, event_name) ==
    /\ ret = NoCall
    /\ BagCardinality(bets) < cap
    /\ bets' = bets (+) SetToBag({Bet(user_id, created_at, amount, event_name)})
    /\ loc' = Seen(bets', now)
    /\ UNCHANGED <<now, users, subs, ret, pc, market>>

\* The settlement flow settles a pending bet.
SettleBet(bet, outcome) ==
    /\ ret = NoCall
    /\ BagIn(bet, bets)
    /\ bet.status = "pending"
    /\ bets' = Without(bets, bet) (+) SetToBag({Settled(bet, outcome[1], outcome[2])})
    /\ loc' = Seen(bets', now)
    /\ UNCHANGED <<now, users, subs, ret, pc, market>>

\* The billing flow writes a subscription.
Subscribe(cap, user_id, created_at, plan_name) ==
    /\ Idle
    /\ BagCardinality(subs) < cap
    /\ subs' = subs (+) SetToBag({Subscription(user_id, created_at, plan_name)})
    /\ UNCHANGED <<now, users, bets, ret, pc, loc, market>>

(***************************************************************************)
(* Calls of the service, each run to its end without a write in between.   *)
(* ret holds the call and what it results until the caller takes it.      *)
(***************************************************************************)
Return ==
    /\ ret # NoCall
    /\ ret' = NoCall
    /\ UNCHANGED <<now, users, bets, subs, pc, loc, market>>

Call_calculate_percentage_change(current_value, previous_value) ==
    /\ Idle
    /\ ret' = [op |-> "calculate_percentage_change",
               current_value |-> current_value, previous_value |-> previous_value,
               result |-> calculate_percentage_change(current_value, previous_value)]
    /\ UNCHANGED <<now, users, bets, subs, pc, loc, market>>

Call_get_user_metrics(user_id, ext) ==
    /\ Idle
    /\ ret' = [op |-> "get_user_metrics", user_id |-> user_id, ext |-> ext,
               result |-> get_user_metrics(users, bets, now, ext, user_id)]
    /\ UNCHANGED <<now, users, bets, subs, pc, loc, market>>

\* The two windows get_user_metrics asks for: since start, and from start
\* up to end.
Windows(clock) ==
    {<<clock - Days(CurrentPeriodDays), <<>>>>,
     <<clock - Days(PreviousPeriodDays), <<clock - Days(CurrentPeriodDays)>>>>}

Call_calculate_period_profit(user_id, start_date, end_date) ==
    /\ Idle
    /\ ret' = [op |-> "calculate_period_profit", user_id |-> user_id,
               start_date |-> start_date, end_date |-> end_date,
               result |-> calculate_period_profit(bets, user_id, start_date, end_date)]
    /\ UNCHANGED <<now, users, bets, subs, pc, loc, market>>

\* metric names the function handed over as metric_func.
Call_calculate_trend_metric(user_id, metric, current_period_days, previous_period_days) ==
    /\ Idle
    /\ ret' = [op |-> "calculate_trend_metric", user_id |-> user_id, metric |-> metric,
               current_period_days |-> current_period_days,
               previous_period_days |-> previous_period_days,
               result |-> calculate_trend_metric(bets, now, user_id, metric,
                                                 current_period_days, previous_period_days)]
    /\ UNCHANGED <<now, users, bets, subs, pc, loc, market>>


Call_format_relative_time(timestamp) ==
    /\ Idle
    /\ ret' = [op |-> "format_relative_time", timestamp |-> timestamp,
               result |-> format_relative_time(now, timestamp)]
    /\ UNCHANGED <<now, users, bets, subs, pc, loc, market>>

\* Ages of the rows formatted, in seconds: around each boundary of the
\* labels, and stamps ahead of the clock.
Ages ==
    {-Day - 1, -Day, -SecondsPerHour, -SecondsPerMinute, -1}
        \cup {k * SecondsPerMinute + d : k \in 0 .. 3, d \in -1 .. 1}
        \cup {k * SecondsPerHour + d : k \in 1 .. 3, d \in -1 .. 1}
        \cup {k * Day + d : k \in 1 .. 3, d \in -1 .. 1}
        \cup {Day + k * SecondsPerHour + d : k \in 1 .. 3, d \in -1 .. 1}
        \cup {Day + k * SecondsPerMinute + d : k \in 1 .. 3, d \in -1 .. 1}

NextFmt ==
    \/ Tick
    \/ \E a \in Ages : Call_format_relative_time(Now0 - a)
    \/ Return

SpecFmt == Init /\ [][NextFmt]_vars

\* rows: the list the query returns, one of those its ordering allows.
Call_get_performance_history(user_id, days, rows) ==
    /\ Idle
    /\ rows \in OrderedByCreatedAt(HistoryQuery(bets, user_id, now - Days(days)))
    /\ ret' = [op |-> "get_performance_history", user_id |-> user_id, days |-> days,
               rows |-> rows, result |-> performance_history(rows, days)]
    /\ UNCHANGED <<now, users, bets, subs, pc, loc, market>>

\* Created-at stamps of the bets charted: 60 and 30 days before the first
\* clock reading, 01:00 on the 15th day after the latter, and an hour ahead
\* of the clock.
HistoryTimes ==
    {Now0 - Days(60), Now0 - Days(30), Now0 - Days(30) + Days(14) + 13 * SecondsPerHour,
     Now0 + SecondsPerHour}

\* Horizons asked for: on both sides of each change of the bin width.
HistoryDays == {DailyUpToDays, DailyUpToDays + 1, WeeklyUpToDays, WeeklyUpToDays + 1}

NextHistory ==
    \/ \E u \in UserIds, t \in HistoryTimes : PlaceBet(MaxBets, u, t, 5, "")
    \/ \E b \in DOMAIN bets, o \in Outcomes : SettleBet(b, o)
    \/ \E d \in HistoryDays :
           \E rows \in OrderedByCreatedAt(HistoryQuery(bets, 1, now - Days(d))) :
               Call_get_performance_history(1, d, rows)
    \/ Return

SpecHistory == Init /\ [][NextHistory]_vars

\* recent_bets and recent_subscriptions: the lists the two queries return;
\* activities: the combined list as it is after its sort.
Call_get_recent_activity(user_id, limit, recent_bets, recent_subscriptions) ==
    /\ Idle
    /\ recent_bets \in RecentRows(bets, user_id, limit)
    /\ recent_subscriptions \in RecentRows(subs, user_id, SubscriptionsLimit)
    /\ ret' = [op |-> "get_recent_activity", user_id |-> user_id, limit |-> limit,
               recent_bets |-> recent_bets, recent_subscriptions |-> recent_subscriptions,
               activities |-> sorted_activities(now, recent_bets, recent_subscriptions),
               result |-> recent_activity(now, recent_bets, recent_subscriptions, limit)]
    /\ UNCHANGED <<now, users, bets, subs, pc, loc, market>>

\* The most rows, bets and subscriptions together, a behaviour writes for
\* the feed.
MaxFeedRows == 4

\* Created-at stamps of the rows of the feed: two hours and one hour before
\* the first clock reading.
FeedTimes == {Now0 - 2 * SecondsPerHour, Now0 - SecondsPerHour}

\* The bets placed for the feed: an older one on a named event, a newer one
\* without an event name.
FeedBets == {<<Now0 - 2 * SecondsPerHour, "Derby">>, <<Now0 - SecondsPerHour, "">>}
FeedLimits == {1, 2, 4}

NextActivity ==
    \/ \E u \in UserIds, b \in FeedBets :
           PlaceBet(MaxFeedRows - BagCardinality(subs), u, b[1], 5, b[2])
    \/ \E b \in DOMAIN bets, o \in Outcomes \ {<<"loss", <<-10>>>>} : SettleBet(b, o)
    \/ \E u \in UserIds, t \in FeedTimes :
           Subscribe(MaxFeedRows - BagCardinality(bets), u, t, "Pro")
    \/ \E n \in FeedLimits :
           \E rb \in RecentRows(bets, 1, n), rs \in RecentRows(subs, 1, SubscriptionsLimit) :
               Call_get_recent_activity(1, n, rb, rs)
    \/ Return

SpecActivity == Init /\ [][NextActivity]_vars

(***************************************************************************)
(* get_user_metrics step by step, one step for each of its reads of the    *)
(* store, the clock and the writing flows running between the steps.  pc   *)
(* is the read the call is at, loc its local variables.                    *)
(***************************************************************************)
\* Lines 25 to 27: the user row is read.
Begin_get_user_metrics(user_id, ext) ==
    /\ Idle
    /\ IF user_id \notin users
       THEN /\ ret' = [op |-> "get_user_metrics", user_id |-> user_id, ext |-> ext,
                       result |-> None, seen |-> {<<bets, now>>}]
            /\ UNCHANGED <<pc, loc>>
       ELSE /\ pc' = "all_bets"
            /\ loc' = [step |-> "get_user_metrics", user_id |-> user_id, ext |-> ext,
                       seen |-> {<<bets, now>>},
                       settled_bets |-> EmptyBag, win_rate |-> Zero,
                       trend_now |-> now, current_metric |-> Zero,
                       win_rate_trend |-> Zero, profit_trend |-> Zero]
            /\ UNCHANGED ret
    /\ UNCHANGED <<now, users, bets, subs, market>>

\* Lines 30 to 34: the bets of the user are read.
Read_all_bets ==
    /\ pc = "all_bets"
    /\ LET all_bets == Keep(bets, {bet \in DOMAIN bets : bet.user_id = loc.user_id})
           settled_bets == Keep(all_bets, {bet \in DOMAIN all_bets : bet.status # "pending"})
       IN  loc' = [loc EXCEPT !.settled_bets = settled_bets,
                              !.win_rate = calculate_win_rate(settled_bets)]
    /\ pc' = "win_rate_current"
    /\ UNCHANGED <<now, users, bets, subs, ret, market>>

\* Lines 267 to 271 of _calculate_trend_metric: the clock is read and the
\* current window is queried.
Read_current_metric(metric, at, then) ==
    /\ pc = at
    /\ loc' = [loc EXCEPT !.trend_now = now,
                          !.current_metric =
                              metric_func(metric, bets, loc.user_id,
                                          now - Days(CurrentPeriodDays), <<>>)]
    /\ pc' = then
    /\ UNCHANGED <<now, users, bets, subs, ret, market>>

\* Lines 272 to 274: the previous window is queried and the change computed.
Read_previous_metric(metric, at, then, trend) ==
    /\ pc = at
    /\ LET previous_metric ==
               metric_func(metric, bets, loc.user_id,
                           loc.trend_now - Days(PreviousPeriodDays),
                           <<loc.trend_now - Days(CurrentPeriodDays)>>)
       IN  loc' = [loc EXCEPT ![trend] =
                       calculate_percentage_change(loc.current_metric, previous_metric)]
    /\ pc' = then
    /\ UNCHANGED <<now, users, bets, subs, ret, market>>

\* Lines 45 and 56 to 87: the profit of the bets read at line 30 is summed,
\* the answers of BetService and the followers are taken and the snapshot
\* is results.
Compile_metrics ==
    /\ pc = "compile"
    /\ ret' = [op |-> "get_user_metrics", user_id |-> loc.user_id, ext |-> loc.ext,
               result |-> Metrics(loc.win_rate, loc.win_rate_trend,
                                  SumProfit(Keep(loc.settled_bets,
                                                 {bet \in DOMAIN loc.settled_bets :
                                                      hasattr(bet, "profit")})),
                                  loc.profit_trend, loc.ext, loc.user_id),
               seen |-> loc.seen]
    /\ pc' = "idle"
    /\ loc' = NoLocals
    /\ UNCHANGED <<now, users, bets, subs, market>>

\* The most Bet rows a behaviour writes around a call in steps.
MaxConcBets == 2

NextConc ==
    \/ Tick
    \/ \E t \in MetricTimes : PlaceBet(MaxConcBets, 1, t, 5, "")
    \/ \E b \in DOMAIN bets, o \in Outcomes : SettleBet(b, o)
    \/ \E u \in {1, UnknownUser} : Begin_get_user_metrics(u, CHOOSE e \in ExtAnswers : e.clutch = 0)
    \/ Read_all_bets
    \/ Read_current_metric("calculate_period_win_rate", "win_rate_current", "win_rate_previous")
    \/ Read_previous_metric("calculate_period_win_rate", "win_rate_previous",
                            "profit_current", "win_rate_trend")
    \/ Read_current_metric("calculate_period_profit", "profit_current", "profit_previous")
    \/ Read_previous_metric("calculate_period_profit", "profit_previous",
                            "compile", "profit_trend")
    \/ Compile_metrics
    \/ Return

SpecConc == Init /\ [][NextConc]_vars

(***************************************************************************)
(* purchase_pick, one step for each of its statements that reach the       *)
(* database.  Each call runs in the session of its thread: what it loads   *)
(* is the committed row at that time, what it changes stays in the         *)
(* session until the commit.                                               *)
(***************************************************************************)
\* The most calls of purchase_pick a behaviour begins.
MaxPurchases == 3

\* The call returns success or failure.
Returns(success, pick_id, wrote) ==
    [results EXCEPT !.successes = IF success THEN [@ EXCEPT ![pick_id] = @ + 1] ELSE @,
                     !.failed_wrote = @ \/ (~success /\ wrote)]

\* Lines 50 to 54: the user and the pick are loaded; without one of them
\* the call returns success False.
Begin_purchase_pick(s, user_id, pick_id) ==
    /\ sessions[s] = NoSession
    /\ results.calls < MaxPurchases
    /\ IF user_id \notin users \/ pick_id \notin DOMAIN picks
       THEN /\ results' = [Returns(FALSE, pick_id, FALSE) EXCEPT !.calls = @ + 1]
            /\ UNCHANGED sessions
       ELSE /\ sessions' = [sessions EXCEPT ![s] =
                                [pc |-> "subscription", user_id |-> user_id,
                                 pick_id |-> pick_id, pick |-> picks[pick_id],
                                 wrote |-> FALSE]]
            /\ results' = [results EXCEPT !.calls = @ + 1]
    /\ UNCHANGED <<dashboard, picks, purchased_picks>>

\* Lines 57 to 62: the subscription of the user is read; nothing follows
\* from it.
Query_subscription(s) ==
    /\ sessions[s].pc = "subscription"
    /\ sessions' = [sessions EXCEPT ![s].pc = "commit"]
    /\ UNCHANGED <<dashboard, picks, purchased_picks, results>>

\* Lines 65 to 71: the pick is appended to the picks of the user, the sales
\* of the loaded Pick object are raised by one, and the commit writes the
\* new association row and the new value of sales (UPDATE ... SET
\* sales = the value computed from the one that was loaded).
Commit_purchase(s) ==
    /\ sessions[s].pc = "commit"
    /\ LET user_id == sessions[s].user_id
           pick_id == sessions[s].pick_id
           pick == Pick(sessions[s].pick.sales + 1)
       IN  /\ purchased_picks' = [purchased_picks EXCEPT ![user_id] = Append(@, pick_id)]
           /\ picks' = [picks EXCEPT ![pick_id] = pick]
    /\ sessions' = [sessions EXCEPT ![s].pc = "to_dict", ![s].wrote = TRUE]
    /\ UNCHANGED <<dashboard, results>>

\* Line 73: pick.to_dict() reads the pick, which the commit has expired,
\* from the database again, and the call returns success True.
Return_purchase(s) ==
    /\ sessions[s].pc = "to_dict"
    /\ results' = Returns(TRUE, sessions[s].pick_id, sessions[s].wrote)
    /\ sessions' = [sessions EXCEPT ![s] = NoSession]
    /\ UNCHANGED <<dashboard, picks, purchased_picks>>

\* Lines 74 to 77: the query of line 57, the commit of line 71 or the read
\* of line 73 raises; the session is rolled back, which undoes nothing that
\* was committed, and the call returns success False.
Rollback_purchase(s) ==
    /\ sessions[s].pc \in {"subscription", "commit", "to_dict"}
    /\ results' = Returns(FALSE, sessions[s].pick_id, sessions[s].wrote)
    /\ sessions' = [sessions EXCEPT ![s] = NoSession]
    /\ UNCHANGED <<dashboard, picks, purchased_picks>>

NextPurchase ==
    \/ \E s \in SessionIds, u \in UserIds \cup {UnknownUser}, p \in PickIds \cup {UnknownPick} :
           Begin_purchase_pick(s, u, p)
    \/ \E s \in SessionIds : Query_subscription(s)
    \/ \E s \in SessionIds : Commit_purchase(s)
    \/ \E s \in SessionIds : Return_purchase(s)
    \/ \E s \in SessionIds : Rollback_purchase(s)

SpecPurchase == Init /\ [][NextPurchase]_vars

\* Values handed to _calculate_percentage_change: counts, sums of profits
\* and win rates.
PctInputs ==
    {RatInt(i) : i \in {-50, -10, -1, 0, 1, 3, 10, 20, 100}}
        \cup {Rat(100, 3), Rat(200, 3), Rat(-5, 2)}

NextPct ==
    \/ \E c, p \in PctInputs : Call_calculate_percentage_change(c, p)
    \/ Return

SpecPct == Init /\ [][NextPct]_vars

Next ==
    \/ Tick
    \/ \E u \in UserIds, t \in MetricTimes : PlaceBet(MaxBets, u, t, 5, "")
    \/ \E b \in DOMAIN bets, o \in Outcomes : SettleBet(b, o)
    \/ \E u \in UserIds \cup {UnknownUser}, e \in ExtAnswers : Call_get_user_metrics(u, e)
    \/ Return

Spec == Init /\ [][Next]_vars

\* The same store under calls of the period and trend helpers.
NextTrend ==
    \/ Tick
    \/ \E u \in UserIds, t \in MetricTimes : PlaceBet(MaxBets, u, t, 5, "")
    \/ \E b \in DOMAIN bets, o \in Outcomes : SettleBet(b, o)
    \/ \E u \in UserIds, w \in Windows(now) : Call_calculate_period_profit(u, w[1], w[2])
    \/ \E u \in UserIds, m \in MetricFuncs :
           Call_calculate_trend_metric(u, m, CurrentPeriodDays, PreviousPeriodDays)
    \/ Return

SpecTrend == Init /\ [][NextTrend]_vars

(***************************************************************************)
(* Properties                                                              *)
(***************************************************************************)
\* The settled rows of a user, and the rows among them in a time range.
OwnRows(B, user_id) == Keep(B, {bet \in DOMAIN B : bet.user_id = user_id})
PendingRows(B, user_id) ==
    Keep(B, {bet \in DOMAIN B : bet.user_id = user_id /\ bet.status = "pending"})
SettledRows(B, user_id) ==
    Keep(B, {bet \in DOMAIN B : bet.user_id = user_id /\ bet.status # "pending"})
WonRows(B, user_id) ==
    Keep(B, {bet \in DOMAIN B : bet.user_id = user_id /\ bet.status = "win"})
WithProfit(B) == Keep(B, {bet \in DOMAIN B : "profit" \in DOMAIN bet})
From(B, t) == Keep(B, {bet \in DOMAIN B : bet.created_at >= t})
Before(B, t) == Keep(B, {bet \in DOMAIN B : bet.created_at < t})

\* C1: _calculate_percentage_change(current, previous) returns 0 whenever
\* previous = 0, whatever current is, never fails with a division by zero,
\* and for previous # 0 returns r with r * |previous| = 100 * (current - previous).
C1_PercentageChange ==
    ret.op = "calculate_percentage_change" =>
        /\ ret.result # ZeroDivisionError
        /\ ret.previous_value = Zero => ret.result = Zero
        /\ ret.previous_value # Zero =>
               RatMul(ret.result, RatAbs(ret.previous_value))
                   = RatMul(RatInt(100), RatSub(ret.current_value, ret.previous_value))

\* A call with previous = 0 and current # 0 has results.
C1_Witness ==
    /\ ret.op = "calculate_percentage_change"
    /\ ret.previous_value = Zero
    /\ ret.current_value = RatInt(20)
    /\ ret.result = Zero

\* C2: get_user_metrics of an id with no User row returns None, not a
\* snapshot; of an id with a User row it returns a snapshot with all eight
\* fields, never None, whether or not the user has bets.
SnapshotFields ==
    {"winRate", "winRateTrend", "totalProfit", "profitTrend", "clutchPicks",
     "clutchPicksTrend", "followers", "followersTrend"}

C2_UnknownUserIsNone ==
    ret.op = "get_user_metrics" =>
        /\ ret.user_id \notin users => ret.result = None
        /\ ret.user_id \in users =>
               /\ ret.result # None
               /\ DOMAIN ret.result = SnapshotFields

\* get_user_metrics of the id without a row has results None while the
\* store holds bets.
C2_Witness ==
    /\ ret.op = "get_user_metrics"
    /\ ret.user_id = UnknownUser
    /\ ret.result = None
    /\ bets # EmptyBag

\* C3: in the snapshot, winRate is 100 * wins / settled over the user's
\* non-pending bets (0 when there are none) and totalProfit is the sum of
\* profit over them, each as the snapshot rounds it; removing a pending bet
\* of the store, or adding one, changes neither value.
C3_OnlySettledCount ==
    (ret.op = "get_user_metrics" /\ ret.user_id \in users) =>
        LET u == ret.user_id
            n == Len_(SettledRows(bets, u))
            w == Len_(WonRows(bets, u))
            same(B) ==
                LET m == get_user_metrics(users, B, now, ret.ext, u)
                IN  /\ m.winRate = ret.result.winRate
                    /\ m.totalProfit = ret.result.totalProfit
        IN  /\ ret.result.winRate = (IF n = 0 THEN Zero ELSE Round1(Rat(100 * w, n)))
            /\ ret.result.totalProfit = RatInt(SumProfit(WithProfit(SettledRows(bets, u))))
            /\ \A b \in DOMAIN PendingRows(bets, u) : same(Without(bets, b))
            /\ same(bets (+) SetToBag({Bet(u, now, 5, "")}))

\* The bets [pending, win with profit 20, loss with profit -10] of one user
\* have given winRate 50.0 and totalProfit 10.
C3_Witness ==
    /\ ret.op = "get_user_metrics"
    /\ ret.user_id \in users
    /\ Len_(PendingRows(bets, ret.user_id)) = 1
    /\ Len_(SettledRows(bets, ret.user_id)) = 2
    /\ Len_(WonRows(bets, ret.user_id)) = 1
    /\ ret.result.winRate = RatInt(50)
    /\ ret.result.totalProfit = RatInt(10)

\* C4: _calculate_period_profit skips a bet without a profit value: the
\* call does not fail, and the sum over the store is the sum over the store
\* without any one of its bets that lack the value.
C4_NoProfitSkipped ==
    ret.op = "calculate_period_profit" =>
        /\ ret.result # AttributeError
        /\ \A b \in DOMAIN bets :
               ~hasattr(b, "profit") =>
                   calculate_period_profit(Without(bets, b), ret.user_id,
                                           ret.start_date, ret.end_date) = ret.result

\* The call has summed a window that holds a settled bet of the user without
\* a profit value beside one with it.
C4_Witness ==
    /\ ret.op = "calculate_period_profit"
    /\ ret.result = RatInt(20)
    /\ \E b \in DOMAIN PeriodQuery(bets, ret.user_id, ret.start_date, ret.end_date) :
           ~hasattr(b, "profit")

\* The value of the metric named over the rows of one window.
MetricOver(rows, metric) ==
    IF metric = "calculate_period_profit"
    THEN RatInt(SumProfit(WithProfit(rows)))
    ELSE IF Len_(rows) = 0 THEN Zero
         ELSE Rat(100 * Len_(Keep(rows, {bet \in DOMAIN rows : bet.status = "win"})), Len_(rows))

\* C5 as stated: the trend compares the metric over the user's settled bets
\* created in [now - currentDays, now) with the metric over those created in
\* [now - previousDays, now - currentDays).
C5_WindowEndsNow ==
    ret.op = "calculate_trend_metric" =>
        LET S == SettledRows(bets, ret.user_id)
            cs == now - Days(ret.current_period_days)
            ps == now - Days(ret.previous_period_days)
            current == Before(From(S, cs), now)
            previous == Before(From(S, ps), cs)
        IN  ret.result = calculate_percentage_change(MetricOver(current, ret.metric),
                                                     MetricOver(previous, ret.metric))

\* C5, amended: the current value is the metric over the user's settled bets
\* created at or after now - currentDays, with no upper end; the previous
\* value is the metric over those created in
\* [now - previousDays, now - currentDays); no bet is in both windows, and
\* the result is the percentage change from the previous to the current value.
C5_DisjointWindows ==
    ret.op = "calculate_trend_metric" =>
        LET S == SettledRows(bets, ret.user_id)
            cs == now - Days(ret.current_period_days)
            ps == now - Days(ret.previous_period_days)
            current == From(S, cs)
            previous == Before(From(S, ps), cs)
        IN  /\ DOMAIN current \cap DOMAIN previous = {}
            /\ ret.result = calculate_percentage_change(MetricOver(current, ret.metric),
                                                        MetricOver(previous, ret.metric))

\* The profit trend of a user with profit 40 in the current window and 20 in
\* the one before has come out as 100.0.
C5_Witness ==
    /\ ret.op = "calculate_trend_metric"
    /\ ret.metric = "calculate_period_profit"
    /\ calculate_period_profit(bets, ret.user_id, now - Days(CurrentPeriodDays), <<>>)
           = RatInt(40)
    /\ calculate_period_profit(bets, ret.user_id, now - Days(PreviousPeriodDays),
                               <<now - Days(CurrentPeriodDays)>>) = RatInt(20)
    /\ ret.result = RatInt(100)

\* C9 as stated: with e = now - timestamp, the label is "Xd ago" with X whole
\* days if e >= 1 day, else "Xh ago" with X whole hours if e >= 1 hour, else
\* "Xm ago" with X whole minutes if e >= 1 minute, else "just now".
C9_RelativeTimeLabel ==
    ret.op = "format_relative_time" =>
        LET e == now - ret.timestamp
        IN  ret.result =
                IF e >= Day THEN <<e \div Day, "d ago">>
                ELSE IF e >= SecondsPerHour THEN <<e \div SecondsPerHour, "h ago">>
                ELSE IF e >= SecondsPerMinute THEN <<e \div SecondsPerMinute, "m ago">>
                ELSE <<"just now">>

\* The bets get_performance_history charts: the user's settled bets created
\* at or after now - days that hold a profit value.
Charted(B, clock, user_id, days) ==
    WithProfit(From(SettledRows(B, user_id), clock - Days(days)))

Stamps(B) == {bet.created_at : bet \in DOMAIN B}
Earliest(B) == CHOOSE t \in Stamps(B) : \A x \in Stamps(B) : t <= x
Latest(B) == CHOOSE t \in Stamps(B) : \A x \in Stamps(B) : t >= x

\* The width of a bucket in seconds, by the horizon asked for.
BucketWidth(days) == IF days <= 30 THEN Days(1) ELSE IF days <= 90 THEN Days(7) ELSE Days(15)

\* The start of bucket i, the first bucket starting at midnight of the day
\* of the earliest bet charted; the number of buckets up to the one that
\* holds the latest; the bets of bucket i.
BucketStart(B, days, i) == (Earliest(B) \div Day) * Day + (i - 1) * BucketWidth(days)
BucketCount(B, days) == ((Latest(B) - BucketStart(B, days, 1)) \div BucketWidth(days)) + 1
Bucket(B, days, i) == Before(From(B, BucketStart(B, days, i)), BucketStart(B, days, i + 1))

\* Every bucket from the first to the last is in the output, once and in
\* order, and a bucket without bets adds 0 to the running total.
AllBuckets(B, days, out) ==
    /\ Len(out) = BucketCount(B, days)
    /\ \A i \in 1 .. Len(out) :
           /\ out[i].date = strftime_b_d(BucketStart(B, days, i))
           /\ (i > 1 /\ Bucket(B, days, i) = EmptyBag) => out[i].profit = out[i - 1].profit

\* C6 as stated: buckets of 1, 7 or 15 days by the horizon, every bucket in
\* range in the output once and in order, empty buckets included, and the
\* output empty only when the user has no settled bet in range.
C6_EmptyOnlyWithoutSettledBets ==
    ret.op = "get_performance_history" =>
        LET D == Charted(bets, now, ret.user_id, ret.days)
        IN  /\ D # EmptyBag => AllBuckets(D, ret.days, ret.result)
            /\ ret.result = <<>> =>
                   From(SettledRows(bets, ret.user_id), now - Days(ret.days)) = EmptyBag

\* C6, amended: buckets of 1, 7 or 15 days by the horizon; every bucket from
\* the one that starts at midnight of the day of the earliest charted bet to
\* the one that holds the latest is in the output once and in order, empty
\* buckets included; the output is empty exactly when the user has no
\* settled bet with a profit value in range.
C6_AllBucketsAppear ==
    ret.op = "get_performance_history" =>
        LET D == Charted(bets, now, ret.user_id, ret.days)
        IN  /\ D # EmptyBag => AllBuckets(D, ret.days, ret.result)
            /\ ret.result = <<>> <=> D = EmptyBag

\* A 90-day history of two bets a fortnight apart has come out with three
\* weekly buckets, the middle one without a bet.
C6_Witness ==
    /\ ret.op = "get_performance_history"
    /\ ret.days = WeeklyUpToDays
    /\ Len(ret.rows) = 2
    /\ Len(ret.result) = 3
    /\ Bucket(Charted(bets, now, ret.user_id, ret.days), ret.days, 2) = EmptyBag
    /\ ret.result[2].profit = ret.result[1].profit

\* Every arrangement of the rows of a bag as a list.
RECURSIVE Arrangements(_)
Arrangements(B) ==
    IF B = EmptyBag THEN {<<>>}
    ELSE UNION {{<<r>> \o rest : rest \in Arrangements(Without(B, r))} : r \in DOMAIN B}

\* C7: the output is a running total: the first point is the sum of profit
\* of bucket 1, each later point is the point before plus the sum of its
\* bucket, the last point is the total profit of the bets charted, and the
\* output is the same for every order of the rows supplied.
C7_RunningTotal ==
    ret.op = "get_performance_history" =>
        LET D == Charted(bets, now, ret.user_id, ret.days)
            out == ret.result
            sum(i) == RatInt(SumProfit(Bucket(D, ret.days, i)))
        IN  /\ out # <<>> =>
                   /\ out[1].profit = sum(1)
                   /\ \A i \in 2 .. Len(out) : out[i].profit = RatAdd(out[i - 1].profit, sum(i))
                   /\ out[Len(out)].profit = RatInt(SumProfit(D))
            /\ \A l \in Arrangements(BagOf(ret.rows)) : performance_history(l, ret.days) = out

\* Three bets in more than one bucket have been charted, the last point
\* being their total, 20 + 20 - 10.
C7_Witness ==
    /\ ret.op = "get_performance_history"
    /\ Len(ret.rows) = 3
    /\ Len(ret.result) > 1
    /\ ret.result[1].profit = RatInt(-10)
    /\ ret.result[Len(ret.result)].profit = RatInt(30)

\* The rows of B of one owner that are not in list.
NotFetched(B, user_id, list) ==
    Keep(B (-) BagOf(list), {r \in DOMAIN (B (-) BagOf(list)) : r.user_id = user_id})

\* list holds the newest rows of the owner in B, at most n of them.
NewestOf(B, user_id, list, n) ==
    /\ BagOf(list) \sqsubseteq B
    /\ \A i \in 1 .. Len(list) : list[i].user_id = user_id
    /\ Len(list) <= n
    /\ \A r \in DOMAIN NotFetched(B, user_id, list) :
           /\ Len(list) = n
           /\ \A i \in 1 .. Len(list) : r.created_at <= list[i].created_at

\* The types an item of the feed has.
Kinds == {"win", "loss", "bet", "purchase"}

\* C8: get_recent_activity(owner, limit) returns at most limit items, in the
\* order of their event times, newest first, bets and subscription purchases
\* together; its candidates are the owner's limit newest bets and 3 newest
\* subscriptions, every candidate left out is no newer than every item
\* results, and no item results has the field "date".
C8_RecentActivity ==
    ret.op = "get_recent_activity" =>
        LET candidates == ret.recent_bets \o ret.recent_subscriptions
            stamps == [i \in 1 .. Len(candidates) |-> candidates[i].created_at]
            dates == [i \in 1 .. Len(ret.activities) |-> ret.activities[i].date]
            returned == 1 .. Len(ret.result)
            left_out == (Len(ret.result) + 1) .. Len(ret.activities)
        IN  /\ NewestOf(bets, ret.user_id, ret.recent_bets, ret.limit)
            /\ NewestOf(subs, ret.user_id, ret.recent_subscriptions, SubscriptionsLimit)
            /\ BagOf(dates) = BagOf(stamps)
            /\ Len(ret.result) = Min(ret.limit, Len(candidates))
            /\ Len(ret.result) <= ret.limit
            /\ \A i \in returned, j \in returned : i < j => dates[i] >= dates[j]
            /\ \A i \in returned, j \in left_out : dates[j] <= dates[i]
            /\ \A i \in returned :
                   /\ DOMAIN ret.result[i] = {"type", "description", "time"}
                   /\ ret.result[i].type \in Kinds
                   /\ ret.result[i].type = ret.activities[i].type
                   /\ ret.result[i].description = ret.activities[i].description
                   /\ ret.result[i].time = format_relative_time(now, dates[i])
                   /\ (ret.result[i].type = "purchase") =
                          (\E k \in 1 .. Len(ret.recent_subscriptions) :
                               /\ ret.recent_subscriptions[k].created_at = dates[i]
                               /\ ret.result[i].description =
                                      <<"Purchased", ret.recent_subscriptions[k].plan_name, "Plan">>)

\* A win of an hour ago and a purchase of two hours ago, limit 1: only the
\* win is returned.
C8_Witness ==
    /\ ret.op = "get_recent_activity"
    /\ ret.limit = 1
    /\ Len(ret.recent_subscriptions) = 1
    /\ ret.recent_subscriptions[1].created_at = Now0 - 2 * SecondsPerHour
    /\ ret.result = <<[type |-> "win", description |-> <<"Won", 5, "bet", 20>>,
                       time |-> <<1, "h ago">>]>>

\* C10: under any interleaving with the writing flows, what get_user_metrics
\* returns is what it computes from one single state of the store, one of
\* the states the store was in during the call.
C10_SingleStoreState ==
    ret.op = "get_user_metrics" =>
        \E s \in ret.seen :
            ret.result = get_user_metrics(users, s[1], s[2], ret.ext, ret.user_id)

\* C11: after any sequence or interleaving of calls of purchase_pick, no
\* call being in progress, the committed sales of each pick is its initial
\* sales plus the number of calls for it that results success True; and no
\* call that results success False has changed the committed
\* purchased_picks or sales.
C11_SalesCountPurchases ==
    /\ (\A s \in SessionIds : sessions[s] = NoSession) =>
           \A pick_id \in PickIds :
               picks[pick_id].sales = InitialSales + results.successes[pick_id]
    /\ ~results.failed_wrote

====
